---- MODULE Spec2Model ----
(***************************************************************************)
(* Model of prompt_processor: the schema registry (schemas/__init__.py),   *)
(* the ISTVONValidator and ISTVONBuilder (validators.py) and the           *)
(* ISTVONMapper (services.py).                                             *)
(*                                                                         *)
(* Five specifications share the variables of this module:                 *)
(*   SpecRegistry  sequential accesses to the schema registry              *)
(*   SpecThreads   concurrent calls of get_cached_schema                   *)
(*   SpecBuilder   one ISTVONBuilder and the caller holding build()'s      *)
(*                 result                                                  *)
(*   SpecMapper    ISTVONMapper.convert_to_istvon on bounded prompts       *)
(*   SpecValidator ISTVONValidator's partial validation and suggestions    *)
(*                 on complete and incomplete records                      *)
(* A specification leaves the variables of the other four at their idle    *)
(* values.                                                                 *)
(***************************************************************************)
EXTENDS Integers, Sequences, FiniteSets, TLC

VARIABLES
    cached_schema,  \* _cached_schema: None, or the identity of the loaded object
    loads,          \* number of times load_istvon_schema() has read the file
    op,             \* name of the operation that produced the current state
    ret,            \* what the last registry access returned
    validators,     \* number of ISTVONValidator objects constructed
    pc,             \* SpecThreads: position of each thread in get_cached_schema
    tmp,            \* SpecThreads: the object a thread has loaded, not yet stored
    result,         \* SpecThreads: the object each thread's call returned
    heap,           \* SpecBuilder: the lists and dicts records refer to, by address
    istvon,         \* SpecBuilder: ISTVONBuilder.istvon, the in-progress record
    built,          \* SpecBuilder: <<R>>, the record build() returned to the caller
    raised,         \* SpecBuilder: <<e>>, the ValueError the last build() raised
    age,            \* SpecBuilder: operations since the caller received the record
    input,          \* SpecMapper: the prompt string
    converted,      \* SpecMapper: the records convert_to_istvon returned for it
    record,         \* SpecValidator: the record handed to the validator
    checked,        \* <<r>>, what the last validate_partial / build_partial returned
    advice          \* SpecValidator: <<d>>, what the last get_validation_suggestions returned

regVars == <<cached_schema, loads, ret, validators>>
thrVars == <<pc, tmp, result>>
bldVars == <<heap, istvon, built, raised, age>>
mapVars == <<input, converted>>
valVars == <<record, checked, advice>>
vars == <<cached_schema, loads, op, ret, validators, pc, tmp, result,
          heap, istvon, built, raised, age, input, converted,
         record, checked, advice>>

None == "None"

\* _cached_schema = None: the value of the global before the first load
NoSchema == 0
NoReturn == [schema |-> NoSchema, from |-> "none"]

----------------------------------------------------------------------------
(* Bounds *)
MaxLoads == 4       \* file reads explored
MaxValidators == 3  \* validator/builder constructions explored
NumThreads == 3     \* threads calling get_cached_schema

Threads == 1..NumThreads

----------------------------------------------------------------------------
(* schemas/__init__.py, sequential                                         *)

\* load_istvon_schema(): reads and parses the file, returning a new object.
\* The object is named by the ordinal of the read that produced it.
load_istvon_schema(n) == n + 1

RegistryIdle ==
    /\ cached_schema = NoSchema
    /\ loads = 0
    /\ ret = NoReturn
    /\ validators = 0

BuilderIdle ==
    /\ heap = <<>>
    /\ istvon = <<>>
    /\ built = <<>>
    /\ raised = <<>>
    /\ age = 0

MapperIdle ==
    /\ input = <<>>
    /\ converted = <<>>

ValidatorIdle ==
    /\ record = <<>>
    /\ checked = <<>>
    /\ advice = <<>>

ThreadsIdle ==
    /\ pc = [t \in Threads |-> "idle"]
    /\ tmp = [t \in Threads |-> NoSchema]
    /\ result = [t \in Threads |-> NoSchema]

\* get_cached_schema(): load on a miss, then return the global.
CachedLookup(doing) ==
    IF cached_schema = NoSchema
    THEN /\ loads < MaxLoads
         /\ loads' = loads + 1
         /\ cached_schema' = load_istvon_schema(loads)
         /\ ret' = [schema |-> cached_schema', from |-> "file"]
         /\ op' = doing
    ELSE /\ UNCHANGED <<loads, cached_schema>>
         /\ ret' = [schema |-> cached_schema, from |-> "cache"]
         /\ op' = doing

get_cached_schema ==
    /\ CachedLookup("get_cached_schema")
    /\ UNCHANGED <<validators, thrVars, bldVars, mapVars, valVars>>

\* Direct read used by the three derived views: load_istvon_schema() is
\* called on every access and _cached_schema is neither read nor written.
DirectLoad(doing) ==
    /\ loads < MaxLoads
    /\ loads' = loads + 1
    /\ ret' = [schema |-> load_istvon_schema(loads), from |-> "file"]
    /\ op' = doing
    /\ UNCHANGED <<cached_schema, validators, thrVars, bldVars, mapVars, valVars>>

get_schema_properties == DirectLoad("get_schema_properties")

get_required_fields == DirectLoad("get_required_fields")

\* get_field_enums() obtains the properties through get_schema_properties().
get_field_enums == DirectLoad("get_field_enums")

\* ISTVONValidator.__init__: self.schema = get_cached_schema()
ISTVONValidator_init ==
    /\ validators < MaxValidators
    /\ CachedLookup("ISTVONValidator")
    /\ validators' = validators + 1
    /\ UNCHANGED <<thrVars, bldVars, mapVars, valVars>>

\* ISTVONBuilder.__init__: constructs an ISTVONValidator.
ISTVONBuilder_init ==
    /\ validators < MaxValidators
    /\ CachedLookup("ISTVONBuilder")
    /\ validators' = validators + 1
    /\ UNCHANGED <<thrVars, bldVars, mapVars, valVars>>

InitRegistry ==
    /\ RegistryIdle
    /\ ThreadsIdle
    /\ BuilderIdle
    /\ MapperIdle
    /\ ValidatorIdle
    /\ op = "init"

NextRegistry ==
    \/ get_cached_schema
    \/ get_schema_properties
    \/ get_required_fields
    \/ get_field_enums
    \/ ISTVONValidator_init
    \/ ISTVONBuilder_init

SpecRegistry == InitRegistry /\ [][NextRegistry]_vars

----------------------------------------------------------------------------
(* get_cached_schema() under threads: each source line is one step, and a  *)
(* thread switch can fall between any two of them (load_istvon_schema      *)
(* performs file I/O).                                                     *)

\* a thread enters get_cached_schema(), directly or from ISTVONValidator()
ThreadCall(t) ==
    /\ pc[t] = "idle"
    /\ pc' = [pc EXCEPT ![t] = "test"]
    /\ op' = "call"
    /\ UNCHANGED <<regVars, tmp, result, bldVars, mapVars, valVars>>

\* line 64: if _cached_schema is None
ThreadTest(t) ==
    /\ pc[t] = "test"
    /\ pc' = [pc EXCEPT ![t] = IF cached_schema = NoSchema THEN "load" ELSE "return"]
    /\ op' = "test"
    /\ UNCHANGED <<regVars, tmp, result, bldVars, mapVars, valVars>>

\* line 65, right-hand side: load_istvon_schema()
ThreadLoad(t) ==
    /\ pc[t] = "load"
    /\ loads' = loads + 1
    /\ tmp' = [tmp EXCEPT ![t] = load_istvon_schema(loads)]
    /\ pc' = [pc EXCEPT ![t] = "store"]
    /\ op' = "load"
    /\ UNCHANGED <<cached_schema, ret, validators, result, bldVars, mapVars, valVars>>

\* line 65, assignment to the global
ThreadStore(t) ==
    /\ pc[t] = "store"
    /\ cached_schema' = tmp[t]
    /\ pc' = [pc EXCEPT ![t] = "return"]
    /\ op' = "store"
    /\ UNCHANGED <<loads, ret, validators, tmp, result, bldVars, mapVars, valVars>>

\* line 66: return _cached_schema
ThreadReturn(t) ==
    /\ pc[t] = "return"
    /\ result' = [result EXCEPT ![t] = cached_schema]
    /\ pc' = [pc EXCEPT ![t] = "done"]
    /\ op' = "return"
    /\ UNCHANGED <<regVars, tmp, bldVars, mapVars, valVars>>

InitThreads ==
    /\ RegistryIdle
    /\ ThreadsIdle
    /\ BuilderIdle
    /\ MapperIdle
    /\ ValidatorIdle
    /\ op = "init"

NextThreads ==
    \E t \in Threads :
        \/ ThreadCall(t)
        \/ ThreadTest(t)
        \/ ThreadLoad(t)
        \/ ThreadStore(t)
        \/ ThreadReturn(t)

SpecThreads == InitThreads /\ [][NextThreads]_vars

----------------------------------------------------------------------------
(* Values.  Free text (instructions, topic, target_audience, length) is a  *)
(* sequence of one-character strings, so that substring search and word    *)
(* splitting can be computed; table-valued and enumerated fields are       *)
(* strings.  None stands for Python's None among strings, NoneText among   *)
(* texts.  A dict is a function from its keys, a list is a sequence.       *)

NoneText == <<"None">>

IsString(v) == v # None
IsText(v) == v # NoneText

\* dict.get(key, default)
Get(d, k, default) == IF k \in DOMAIN d THEN d[k] ELSE default

\* dict.update(other): keys of other win
Update(d, other) == other @@ d

T_cats == <<"c", "a", "t", "s">>
T_write_it == <<"W", "r", "i", "t", "e", " ", "i", "t">>

----------------------------------------------------------------------------
(* The schema document istvon_schema.json: six required top-level keys,    *)
(* nested object/array shapes, and the enumerated value sets.  Only type,  *)
(* required, enum and nested-shape constraints occur.                      *)

RequiredFields ==
    <<"instructions", "source_data", "tools", "variables", "outcome", "notification">>

SourceTypeEnum == {"none", "knowledge_base"}
ToneEnum == {"professional", "casual", "formal", "friendly", "technical"}
PriorityEnum == {"medium"}
FormatEnum == {"plain_text", "markdown", "pdf", "html", "docx"}
DeliveryEnum == {"display", "save_to_file"}
MethodEnum == {"none", "email", "in_app"}
TriggerEnum == {"on_completion"}

Violation(path, message) == [path |-> path, message |-> message]

\* an enumerated key of an object: `required` when absent and demanded,
\* `enum` when present with a value outside the set
EnumViolations(path, d, k, enum, isRequired) ==
    IF k \notin DOMAIN d
    THEN IF isRequired THEN {Violation(path, <<"required", k>>)} ELSE {}
    ELSE IF d[k] \in enum THEN {} ELSE {Violation(path \o <<k>>, <<"enum", d[k]>>)}

\* a string key of an object
StringViolations(path, d, k, isRequired) ==
    IF k \notin DOMAIN d
    THEN IF isRequired THEN {Violation(path, <<"required", k>>)} ELSE {}
    ELSE IF IsString(d[k]) THEN {} ELSE {Violation(path \o <<k>>, <<"type", "string">>)}

\* the violations of one top-level field against its schema fragment
FieldViolations(field, value) ==
    CASE field = "instructions" ->
            IF IsText(value) THEN {} ELSE {Violation(<<field>>, <<"type", "string">>)}
      [] field = "source_data" ->
            UNION { EnumViolations(<<field, i>>, value[i], "type", SourceTypeEnum, TRUE)
                    \cup StringViolations(<<field, i>>, value[i], "source", TRUE)
                    \cup StringViolations(<<field, i>>, value[i], "description", FALSE)
                    : i \in DOMAIN value }
      [] field = "tools" ->
            UNION { StringViolations(<<field, i>>, value[i], "name", TRUE)
                    \cup StringViolations(<<field, i>>, value[i], "version", FALSE)
                    : i \in DOMAIN value }
      [] field = "variables" ->
            EnumViolations(<<field>>, value, "tone", ToneEnum, FALSE)
            \cup EnumViolations(<<field>>, value, "priority", PriorityEnum, FALSE)
      [] field = "outcome" ->
            EnumViolations(<<field>>, value, "format", FormatEnum, TRUE)
            \cup EnumViolations(<<field>>, value, "delivery", DeliveryEnum, TRUE)
            \cup StringViolations(<<field>>, value, "filename", FALSE)
            \cup StringViolations(<<field>>, value, "destination", FALSE)
      [] field = "notification" ->
            EnumViolations(<<field>>, value, "method", MethodEnum, TRUE)
            \cup EnumViolations(<<field>>, value, "trigger", TriggerEnum, TRUE)
            \cup StringViolations(<<field>>, value, "recipient", FALSE)
            \cup StringViolations(<<field>>, value, "message_template", FALSE)
      [] OTHER -> {}

\* every constraint of the schema that a record fails
Violations(data) ==
    { Violation(<<>>, <<"required", RequiredFields[i]>>) :
        i \in { j \in DOMAIN RequiredFields : RequiredFields[j] \notin DOMAIN data } }
    \cup UNION { FieldViolations(k, data[k]) : k \in DOMAIN data }

----------------------------------------------------------------------------
(* ISTVONValidator *)

\* f"Validation error at {path}: {e.message}"
ValidationErrorText(v) ==
    [text |-> "Validation error at ", path |-> v.path, message |-> v.message]

validate_istvon_AlwaysValid(istvon_data) == {<<TRUE, None>>}

\* validate_istvon: the possible (is_valid, error_message) results.
\* jsonschema.validate raises one of the failing constraints (its
\* best_match); which one is left open.
validate_istvon(istvon_data) ==
    IF Violations(istvon_data) = {}
    THEN {<<TRUE, None>>}
    ELSE { <<FALSE, ValidationErrorText(v)>> : v \in Violations(istvon_data) }

\* create_minimal_istvon(instructions), as a value
create_minimal_istvon(instructions) ==
    [ instructions |-> instructions,
      source_data |-> << [type |-> "none", source |-> "general_knowledge"] >>,
      tools |-> << [name |-> "text_generation"] >>,
      variables |-> [tone |-> "professional", priority |-> "medium"],
      outcome |-> [format |-> "plain_text", delivery |-> "display"],
      notification |-> [method |-> "none", trigger |-> "on_completion"] ]

\* f"Missing required field: {field}"
MissingErrorText(field) ==
    [text |-> "Missing required field: ", field |-> field, message |-> <<>>]

\* f"Field '{field}': {e.message}"
FieldErrorText(field, v) ==
    [text |-> "Field", field |-> field, message |-> v.message]

\* the first loop of validate_partial, over the schema's required list
MissingErrors(partial_data) ==
    LET absent == SelectSeq(RequiredFields, LAMBDA f : f \notin DOMAIN partial_data)
    IN  [i \in DOMAIN absent |-> MissingErrorText(absent[i])]

\* the second loop of validate_partial, from the i-th key on: the possible
\* error lists.  The keys of a record are visited in the order
\* create_minimal_istvon inserts them; validate() of a value raises one of
\* the constraints the value fails, and the loop goes on to the next key.
RECURSIVE FieldErrors(_, _)
FieldErrors(partial_data, i) ==
    IF i > Len(RequiredFields) THEN { <<>> }
    ELSE LET field == RequiredFields[i]
             rest == FieldErrors(partial_data, i + 1)
         IN  IF field \notin DOMAIN partial_data THEN rest
             ELSE LET failing == FieldViolations(field, partial_data[field])
                  IN  IF failing = {} THEN rest
                      ELSE { <<FieldErrorText(field, v)>> \o r : v \in failing, r \in rest }

\* validate_partial returning at its first error
validate_partial_FirstOnly(partial_data, required_only) ==
    LET missing == IF required_only THEN MissingErrors(partial_data) ELSE <<>>
    IN  { [required_only |-> required_only,
           ok |-> (missing \o e) = <<>>,
           errors |-> IF (missing \o e) = <<>> THEN <<>> ELSE << (missing \o e)[1] >>] :
          e \in FieldErrors(partial_data, 1) }

\* validate_partial: the possible (is_valid, errors) results
validate_partial(partial_data, required_only) ==
    LET missing == IF required_only THEN MissingErrors(partial_data) ELSE <<>>
    IN  { [required_only |-> required_only,
           ok |-> (missing \o e) = <<>>,
           errors |-> missing \o e] : e \in FieldErrors(partial_data, 1) }

----------------------------------------------------------------------------
(* ISTVONBuilder.  self.istvon is a dict whose five container values are   *)
(* Python objects held by reference: the heap maps an address to the list  *)
(* or dict stored there, and a record maps each container key to an        *)
(* address.  Descriptors inside a list are stored with the list.           *)
(*                                                                         *)
(* An address is only a name for an object.  The object self.istvon[k]     *)
(* refers to is named Home(k); an object that only a returned record       *)
(* refers to is named Spare(k).  When self.istvon[k] is bound to a new     *)
(* object while a returned record still refers to the old one, the old     *)
(* object takes the name Spare(k).                                         *)

NumKeys == 5        \* container keys of a record
MaxList == 2        \* longest source_data / tools list explored
MaxHeld == 1        \* operations explored while the caller holds a returned record

ContainerSeq == <<"source_data", "tools", "variables", "outcome", "notification">>
ContainerKeys == { ContainerSeq[i] : i \in 1..NumKeys }
Home(k) == CHOOSE i \in 1..NumKeys : ContainerSeq[i] = k
Spare(k) == NumKeys + Home(k)
Addrs == 1..(2 * NumKeys)

\* the addresses a record refers to
Refs(rec) == { rec[k] : k \in ContainerKeys \cap DOMAIN rec }

Roots(ist, blt) == Refs(ist) \cup UNION { Refs(blt[i]) : i \in DOMAIN blt }

\* reference counting: an object no record refers to is freed
Collect(h, ist, blt) == [a \in Addrs |-> IF a \in Roots(ist, blt) THEN h[a] ELSE <<>>]

\* self.istvon[k] = value: a new object is bound to key k of self.istvon;
\* the records the caller holds keep referring to the old object
BindHeap(h, k, value) ==
    [h EXCEPT ![Spare(k)] = IF \E i \in DOMAIN built : built[i][k] = Home(k)
                            THEN h[Home(k)] ELSE @,
              ![Home(k)] = value]

BindBuilt(k) ==
    [i \in DOMAIN built |->
        IF built[i][k] = Home(k) THEN [built[i] EXCEPT ![k] = Spare(k)] ELSE built[i]]

\* the value a record denotes in heap h
DeepIn(h, rec) ==
    [k \in DOMAIN rec |-> IF k \in ContainerKeys THEN h[rec[k]] ELSE rec[k]]

Deep(rec) == DeepIn(heap, rec)

\* ISTVONBuilder.__init__: self.istvon = create_minimal_istvon("")
InitBuilder ==
    /\ RegistryIdle
    /\ ThreadsIdle
    /\ MapperIdle
    /\ ValidatorIdle
    /\ op = "init"
    /\ LET m == create_minimal_istvon(<<>>) IN
        /\ istvon = [k \in DOMAIN m |->
                        IF k \in ContainerKeys THEN Home(k) ELSE m[k]]
        /\ heap = [a \in Addrs |->
                     IF a <= NumKeys THEN m[ContainerSeq[a]] ELSE <<>>]
    /\ built = <<>>
    /\ raised = <<>>
    /\ age = 0

\* inputs
InstructionArgs == {T_write_it}
SourceArgs ==
    { <<"knowledge_base", "doc", "d", TRUE>>,
      <<"none", "nothing", "", FALSE>> }
ToolArgs == { <<"web_search", "v1", None>> }
VariableArgs ==
    { [tone |-> "bogus"], [topic |-> T_cats], [topic |-> T_cats, tone |-> "casual"] }
OutcomeArgs ==
    { <<"pdf", "save_to_file", "out.pdf", None, <<>>>>,
      <<"bogus", "display", None, "dir", [quality |-> "high"]>> }
NotificationArgs ==
    { <<"email", "me", "on_completion", None>>,
      <<"in_app", None, "bogus", "tpl">> }

BuilderOps ==
    {"set_instructions", "add_source_data", "clear_tools", "add_tool",
     "set_variables", "set_outcome", "set_notification"}
CallerOps == {"caller_append", "caller_update", "caller_assign"}

\* the caller holds a record for at most MaxHeld further operations
CanStep == built = <<>> \/ age < MaxHeld

\* common tail of a builder operation: new in-progress record and heap
BuilderStep(name, ist, h, blt) ==
    /\ CanStep
    /\ op' = name
    /\ istvon' = ist
    /\ built' = blt
    /\ age' = IF blt = <<>> THEN 0 ELSE age + 1
    /\ heap' = Collect(h, ist, blt)
    /\ raised' = <<>>
    /\ checked' = <<>>
    /\ UNCHANGED <<regVars, thrVars, mapVars, record, advice>>

set_instructions(instructions) ==
    BuilderStep("set_instructions", [istvon EXCEPT !.instructions = instructions],
                heap, built)

\* the dict add_source_data appends
SourceItem(source_type, source, description, required) ==
    LET item == [type |-> source_type, source |-> source, required |-> required]
    IN  IF description # "" THEN [description |-> description] @@ item ELSE item

IsDefaultSource_Never(lst) == FALSE

\* the default entry is dropped by binding a new list
IsDefaultSource(lst) ==
    /\ lst # <<>>
    /\ Len(lst) = 1
    /\ Get(lst[1], "type", None) = "none"

add_source_data(source_type, source, description, required) ==
    LET cur == heap[istvon.source_data]
        item == SourceItem(source_type, source, description, required)
    IN  IF IsDefaultSource(cur)
        THEN BuilderStep("add_source_data", istvon,
                         BindHeap(heap, "source_data", <<item>>), BindBuilt("source_data"))
        ELSE /\ Len(cur) < MaxList
             /\ BuilderStep("add_source_data", istvon,
                            [heap EXCEPT ![istvon.source_data] = Append(cur, item)],
                            built)

clear_tools ==
    BuilderStep("clear_tools", istvon, BindHeap(heap, "tools", <<>>), BindBuilt("tools"))

ToolItem(tool_name, version, parameters) ==
    LET named == [name |-> tool_name]
        versioned == IF version # None THEN [version |-> version] @@ named ELSE named
    IN  IF parameters # None THEN [parameters |-> parameters] @@ versioned ELSE versioned

add_tool(tool_name, version, parameters) ==
    /\ Len(heap[istvon.tools]) < MaxList
    /\ BuilderStep("add_tool", istvon,
                   [heap EXCEPT ![istvon.tools] =
                        Append(@, ToolItem(tool_name, version, parameters))],
                   built)

set_variables_Replace(variables) ==
    BuilderStep("set_variables", istvon,
                [heap EXCEPT ![istvon.variables] = variables], built)

set_variables(variables) ==
    BuilderStep("set_variables", istvon,
                [heap EXCEPT ![istvon.variables] = Update(@, variables)], built)

OutcomeDict(format_type, delivery, filename, destination, other_options) ==
    LET base == [format |-> format_type, delivery |-> delivery]
        f == IF filename # None THEN [filename |-> filename] @@ base ELSE base
        d == IF destination # None THEN [destination |-> destination] @@ f ELSE f
    IN  Update(d, other_options)

set_outcome_Merge(format_type, delivery, filename, destination, other_options) ==
    BuilderStep("set_outcome", istvon,
                BindHeap(heap, "outcome",
                         Update(heap[istvon.outcome],
                                OutcomeDict(format_type, delivery, filename, destination,
                                            other_options))),
                BindBuilt("outcome"))

set_outcome(format_type, delivery, filename, destination, other_options) ==
    BuilderStep("set_outcome", istvon,
                BindHeap(heap, "outcome",
                         OutcomeDict(format_type, delivery, filename, destination,
                                     other_options)),
                BindBuilt("outcome"))

NotificationDict(method, recipient, trigger, message_template) ==
    LET base == [method |-> method, trigger |-> trigger]
        r == IF recipient # None THEN [recipient |-> recipient] @@ base ELSE base
    IN  IF message_template # None
        THEN [message_template |-> message_template] @@ r ELSE r

set_notification(method, recipient, trigger, message_template) ==
    BuilderStep("set_notification", istvon,
                BindHeap(heap, "notification",
                         NotificationDict(method, recipient, trigger, message_template)),
                BindBuilt("notification"))

\* ValueError(f"Invalid ISTVON structure: {error}")
BuildError_NoMessage(error) ==
    [text |-> "Invalid ISTVON structure: ",
     error |-> [text |-> "", path |-> <<>>, message |-> <<>>]]

BuildError(error) == [text |-> "Invalid ISTVON structure: ", error |-> error]

\* self.istvon.copy(): a new top-level dict with the same values, the
\* container values being the same objects
DictCopy(rec) == [k \in DOMAIN rec |-> rec[k]]

\* build(): validate, then raise or return the copy
build ==
    \E r \in validate_istvon(Deep(istvon)) :
        /\ op' = "build"
        /\ IF r[1]
           THEN /\ built' = << DictCopy(istvon) >>
                /\ age' = 0
                /\ raised' = <<>>
                /\ heap' = Collect(heap, istvon, built')
           ELSE /\ raised' = << BuildError(r[2]) >>
                /\ UNCHANGED <<built, heap, age>>
        /\ checked' = <<>>
        /\ UNCHANGED <<istvon, regVars, thrVars, mapVars, record, advice>>

\* build_partial(): validate_partial(self.istvon) with required_only left
\* at its default; the copy is returned whatever the verdict.  The copy
\* is a new top-level dict referring to the same containers, as build()'s
\* is; here the caller, holding no other returned record, keeps the
\* verdict and lets go of the copy at once.
build_partial ==
    \E r \in validate_partial(Deep(istvon), FALSE) :
        /\ built = <<>>
        /\ op' = "build_partial"
        /\ checked' = <<r>>
        /\ raised' = <<>>
        /\ heap' = Collect(heap, istvon, built)
        /\ UNCHANGED <<istvon, built, age, regVars, thrVars, mapVars, record, advice>>

\* the caller of build() changes the record it received
CallerStep(name, blt, h) ==
    /\ built # <<>>
    /\ CanStep
    /\ op' = name
    /\ built' = blt
    /\ age' = age + 1
    /\ heap' = Collect(h, istvon, blt)
    /\ raised' = <<>>
    /\ checked' = <<>>
    /\ UNCHANGED <<istvon, regVars, thrVars, mapVars, record, advice>>

\* R["tools"].append(item)
caller_append(item) ==
    /\ built # <<>>
    /\ Len(heap[built[1].tools]) < MaxList
    /\ CallerStep("caller_append", built, [heap EXCEPT ![built[1].tools] = Append(@, item)])

\* R["variables"].update(kv)
caller_update(variables) ==
    /\ built # <<>>
    /\ CallerStep("caller_update", built,
                  [heap EXCEPT ![built[1].variables] = Update(@, variables)])

\* R["instructions"] = text
caller_assign(instructions) ==
    /\ built # <<>>
    /\ CallerStep("caller_assign", <<[built[1] EXCEPT !.instructions = instructions]>>, heap)

\* the caller lets go of the record
caller_release ==
    /\ built # <<>>
    /\ op' = "caller_release"
    /\ built' = <<>>
    /\ age' = 0
    /\ heap' = Collect(heap, istvon, <<>>)
    /\ raised' = <<>>
    /\ checked' = <<>>
    /\ UNCHANGED <<istvon, regVars, thrVars, mapVars, record, advice>>

NextBuilder ==
    \/ \E i \in InstructionArgs : set_instructions(i)
    \/ \E s \in SourceArgs : add_source_data(s[1], s[2], s[3], s[4])
    \/ clear_tools
    \/ \E t \in ToolArgs : add_tool(t[1], t[2], t[3])
    \/ \E v \in VariableArgs : set_variables(v)
    \/ \E o \in OutcomeArgs : set_outcome(o[1], o[2], o[3], o[4], o[5])
    \/ \E n \in NotificationArgs : set_notification(n[1], n[2], n[3], n[4])
    \/ build
    \/ build_partial
    \/ \E t \in ToolArgs : caller_append(ToolItem(t[1], t[2], t[3]))
    \/ \E v \in VariableArgs : caller_update(v)
    \/ \E i \in InstructionArgs : caller_assign(i)
    \/ caller_release

SpecBuilder == InitBuilder /\ [][NextBuilder]_vars

----------------------------------------------------------------------------
(* Text: str.lower, str.upper, str.split, str.strip, `in`, and the three   *)
(* regular expressions of services.py, computed on character sequences.    *)

UpperLetters == <<"A", "B", "C", "D", "E", "F", "G", "H", "I", "J", "K", "L", "M", "N", "O", "P", "Q", "R", "S", "T", "U", "V", "W", "X", "Y", "Z">>
LowerLetters == <<"a", "b", "c", "d", "e", "f", "g", "h", "i", "j", "k", "l", "m", "n", "o", "p", "q", "r", "s", "t", "u", "v", "w", "x", "y", "z">>
NumLetters == 26
Digits == {"0", "1", "2", "3", "4", "5", "6", "7", "8", "9"}
Whitespace == {" ", "\t", "\n"}
\* the characters excluded by the class [^,.\n!?]
ClauseBoundary == {",", ".", "\n", "!", "?"}

\* the lower-case letter of each upper-case letter, and the converse
LowerOf ==
    [c \in { UpperLetters[i] : i \in 1..NumLetters } |->
        LowerLetters[CHOOSE i \in 1..NumLetters : UpperLetters[i] = c]]
UpperOf ==
    [c \in { LowerLetters[i] : i \in 1..NumLetters } |->
        UpperLetters[CHOOSE i \in 1..NumLetters : LowerLetters[i] = c]]

ToLower(c) == IF c \in DOMAIN LowerOf THEN LowerOf[c] ELSE c

ToUpper(c) == IF c \in DOMAIN UpperOf THEN UpperOf[c] ELSE c

\* str.lower()
Lower(s) == [i \in 1..Len(s) |-> ToLower(s[i])]

\* s[i:i+len(k)] == k
MatchAt(s, k, i) ==
    /\ i + Len(k) - 1 <= Len(s)
    /\ \A j \in 1..Len(k) : s[i + j - 1] = k[j]

\* the same, ignoring case (re.IGNORECASE; k is lower-case)
MatchAtIgnoreCase(s, k, i) ==
    /\ i + Len(k) - 1 <= Len(s)
    /\ \A j \in 1..Len(k) : ToLower(s[i + j - 1]) = k[j]

\* k in s
Contains(s, k) == \E i \in 1..(Len(s) + 1) : MatchAt(s, k, i)

\* any(word in s for word in words)
ContainsAny(s, words) == \E w \in words : Contains(s, w)

\* the end of the longest run of characters of `class` starting at i
\* (i - 1 when s[i] is not in the class)
RunEnd(s, i, class) ==
    LET stops == { j \in i..Len(s) : s[j] \notin class }
    IN  IF stops = {} THEN Len(s)
        ELSE (CHOOSE j \in stops : \A m \in stops : j <= m) - 1

\* the end of the longest run of characters outside `class` starting at i
RunEndNot(s, i, class) ==
    LET stops == { j \in i..Len(s) : s[j] \in class }
    IN  IF stops = {} THEN Len(s)
        ELSE (CHOOSE j \in stops : \A m \in stops : j <= m) - 1

\* str.strip()
Strip(s) ==
    LET keep == { i \in 1..Len(s) : s[i] \notin Whitespace }
    IN  IF keep = {} THEN <<>>
        ELSE SubSeq(s, CHOOSE i \in keep : \A j \in keep : i <= j,
                       CHOOSE i \in keep : \A j \in keep : i >= j)

\* str.split()
RECURSIVE Split(_)
Split(s) ==
    IF s = <<>> THEN <<>>
    ELSE IF s[1] \in Whitespace THEN Split(Tail(s))
    ELSE LET e == RunEndNot(s, 1, Whitespace)
         IN  <<SubSeq(s, 1, e)>> \o Split(SubSeq(s, e + 1, Len(s)))

\* ' '.join(words)
RECURSIVE Join(_)
Join(words) ==
    IF words = <<>> THEN <<>>
    ELSE IF Len(words) = 1 THEN words[1]
    ELSE words[1] \o <<" ">> \o Join(Tail(words))

\* re.search(word + r'\s+([^,.\n!?]+)', s, re.IGNORECASE): the places where
\* the group can start for a match beginning at i.  \s+ is greedy and gives
\* characters back until the class matches one.
GroupStarts(s, word, i) ==
    IF ~MatchAtIgnoreCase(s, word, i) THEN {}
    ELSE LET j == i + Len(word)
             k == RunEnd(s, j, Whitespace) + 1
         IN  { m \in (j + 1)..k : m <= Len(s) /\ s[m] \notin ClauseBoundary }

\* group(1) of the leftmost match, as <<text>>, or <<>> when nothing matches
SearchClause(s, word) ==
    LET hits == { i \in 1..Len(s) : GroupStarts(s, word, i) # {} }
    IN  IF hits = {} THEN <<>>
        ELSE LET i == CHOOSE h \in hits : \A g \in hits : h <= g
                 m == CHOOSE a \in GroupStarts(s, word, i) :
                          \A b \in GroupStarts(s, word, i) : a >= b
             IN  << SubSeq(s, m, RunEndNot(s, m, ClauseBoundary)) >>

\* the units of r'(\d+)\s*(words?|pages?|paragraphs?)', in alternation order
LengthUnits == << <<"w", "o", "r", "d">>,
       <<"p", "a", "g", "e">>,
       <<"p", "a", "r", "a", "g", "r", "a", "p", "h">> >>

\* the unit matched at position k: the first alternative that matches, with
\* its optional s
UnitAt(s, k) ==
    LET fits == { u \in 1..Len(LengthUnits) : MatchAt(s, LengthUnits[u], k) }
    IN  IF fits = {} THEN <<>>
        ELSE LET u == LengthUnits[CHOOSE a \in fits : \A b \in fits : a <= b]
             IN  IF MatchAt(s, <<"s">>, k + Len(u)) THEN << u \o <<"s">> >> ELSE << u >>

\* re.search(r'(\d+)\s*(words?|pages?|paragraphs?)', s): <<group1, group2>>
\* of the leftmost match, or <<>>
SearchLength(s) ==
    LET unitOf(i) == UnitAt(s, RunEnd(s, RunEnd(s, i, Digits) + 1, Whitespace) + 1)
        hits == { i \in 1..Len(s) : s[i] \in Digits /\ unitOf(i) # <<>> }
    IN  IF hits = {} THEN <<>>
        ELSE LET i == CHOOSE h \in hits : \A g \in hits : h <= g
             IN  << SubSeq(s, i, RunEnd(s, i, Digits)), unitOf(i)[1] >>

----------------------------------------------------------------------------
(* ISTVONMapper *)

\* self.action_keywords, in declaration order
action_keywords ==
    << <<<<"w", "r", "i", "t", "e">>, "text_generation">>,
       <<<<"c", "r", "e", "a", "t", "e">>, "text_generation">>,
       <<<<"g", "e", "n", "e", "r", "a", "t", "e">>, "text_generation">>,
       <<<<"a", "n", "a", "l", "y", "z", "e">>, "data_analysis">>,
       <<<<"s", "e", "a", "r", "c", "h">>, "web_search">>,
       <<<<"s", "u", "m", "m", "a", "r", "i", "z", "e">>, "summarization">>,
       <<<<"t", "r", "a", "n", "s", "l", "a", "t", "e">>, "translation">>,
       <<<<"c", "o", "d", "e">>, "code_generation">> >>

\* self.output_formats, in declaration order
output_formats ==
    << <<<<"b", "l", "o", "g", " ", "p", "o", "s", "t">>, "markdown">>,
       <<<<"b", "l", "o", "g">>, "markdown">>,
       <<<<"r", "e", "p", "o", "r", "t">>, "pdf">>,
       <<<<"e", "m", "a", "i", "l">>, "plain_text">>,
       <<<<"p", "r", "e", "s", "e", "n", "t", "a", "t", "i", "o", "n">>, "html">>,
       <<<<"d", "o", "c", "u", "m", "e", "n", "t">>, "docx">>,
       <<<<"a", "n", "a", "l", "y", "s", "i", "s">>, "pdf">>,
       <<<<"s", "u", "m", "m", "a", "r", "y">>, "plain_text">> >>

\* self.tone_indicators, in declaration order
tone_indicators ==
    << <<<<"p", "r", "o", "f", "e", "s", "s", "i", "o", "n", "a", "l">>, "professional">>,
       <<<<"c", "a", "s", "u", "a", "l">>, "casual">>,
       <<<<"f", "o", "r", "m", "a", "l">>, "formal">>,
       <<<<"f", "r", "i", "e", "n", "d", "l", "y">>, "friendly">>,
       <<<<"t", "e", "c", "h", "n", "i", "c", "a", "l">>, "technical">> >>

\* the first entry of a table whose key occurs in s, or the default
FirstMatch(table, s, default) ==
    LET hits == { i \in 1..Len(table) : Contains(s, table[i][1]) }
    IN  IF hits = {} THEN default
        ELSE table[CHOOSE i \in hits : \A j \in hits : i <= j][2]

\* the alternatives of r'^(please|can you|could you|i want you to|i need you to)\s*'
PolitePrefixes ==
    << <<"p", "l", "e", "a", "s", "e">>,
       <<"c", "a", "n", " ", "y", "o", "u">>,
       <<"c", "o", "u", "l", "d", " ", "y", "o", "u">>,
       <<"i", " ", "w", "a", "n", "t", " ", "y", "o", "u", " ", "t", "o">>,
       <<"i", " ", "n", "e", "e", "d", " ", "y", "o", "u", " ", "t", "o">> >>

\* what indexing an empty string raises
IndexError == <<"IndexError">>

\* re.sub(r'^(...)\s*', '', prompt, flags=re.IGNORECASE)
StripPrefix(prompt) ==
    LET fits == { p \in 1..Len(PolitePrefixes) :
                    MatchAtIgnoreCase(prompt, PolitePrefixes[p], 1) }
    IN  IF fits = {} THEN prompt
        ELSE LET p == PolitePrefixes[CHOOSE a \in fits : \A b \in fits : a <= b]
             IN  SubSeq(prompt, RunEnd(prompt, Len(p) + 1, Whitespace) + 1, Len(prompt))

\* cleaned[0].upper() + cleaned[1:]
Capitalize(cleaned) ==
    IF cleaned = <<>> THEN IndexError ELSE <<ToUpper(cleaned[1])>> \o Tail(cleaned)

extract_instructions_NoGuard(prompt) == Capitalize(StripPrefix(prompt))

\* _extract_instructions
extract_instructions(prompt) ==
    LET cleaned == StripPrefix(prompt)
    IN  IF cleaned # <<>> THEN Capitalize(cleaned) ELSE prompt

\* _extract_source_data
extract_source_data(prompt) ==
    IF ContainsAny(prompt, { <<"r", "e", "s", "e", "a", "r", "c", "h">>,
                            <<"d", "a", "t", "a">>,
                            <<"f", "i", "l", "e">>,
                            <<"d", "o", "c", "u", "m", "e", "n", "t">> })
    THEN << [type |-> "knowledge_base", source |-> "research_data",
             description |-> "Referenced research or data sources"] >>
    ELSE IF ContainsAny(prompt, { <<"c", "o", "m", "p", "a", "n", "y">>,
                            <<"o", "r", "g", "a", "n", "i", "z", "a", "t", "i", "o", "n">>,
                            <<"i", "n", "t", "e", "r", "n", "a", "l">> })
    THEN << [type |-> "knowledge_base", source |-> "company_guidelines",
             description |-> "Company or organizational information"] >>
    ELSE << [type |-> "none", source |-> "general_knowledge",
             description |-> "General knowledge base"] >>

\* found_tools: the categories of the keywords that occur in the prompt
FoundTools(prompt) ==
    { action_keywords[i][2] :
        i \in { j \in 1..Len(action_keywords) : Contains(prompt, action_keywords[j][1]) } }

\* the lists `for tool in found_tools: tools.append(...)` can build: a set
\* of strings is iterated in an order that depends on the interpreter's
\* string hashing, which differs from one process to the next
SetOrders(S) ==
    { f \in [1..Cardinality(S) -> S] : \A i, j \in 1..Cardinality(S) : f[i] = f[j] => i = j }

\* a list with one entry per matching keyword, in table order
extract_tools_NoDedup(prompt) ==
    LET hits == { j \in 1..Len(action_keywords) : Contains(prompt, action_keywords[j][1]) }
        pick[n \in 0..Len(action_keywords)] ==
            IF n = 0 THEN <<>>
            ELSE IF n \in hits THEN Append(pick[n - 1], [name |-> action_keywords[n][2]])
            ELSE pick[n - 1]
    IN  IF hits = {} THEN { << [name |-> "text_generation"] >> }
        ELSE { pick[Len(action_keywords)] }

\* _extract_tools: the lists it can return
extract_tools(prompt) ==
    IF FoundTools(prompt) = {}
    THEN { << [name |-> "text_generation"] >> }
    ELSE { [i \in DOMAIN f |-> [name |-> f[i]]] : f \in SetOrders(FoundTools(prompt)) }

\* _extract_variables
extract_variables(prompt) ==
    LET topic_match == SearchClause(prompt, <<"a", "b", "o", "u", "t">>)
        words == Split(prompt)
        topic == IF topic_match # <<>> THEN [topic |-> Strip(topic_match[1])]
                 ELSE IF Len(words) > 3 THEN [topic |-> Join(SubSeq(words, 2, 4))]
                 ELSE <<>>
        tone == [tone |-> FirstMatch(tone_indicators, Lower(prompt), "professional")]
        length_match == SearchLength(Lower(prompt))
        length == IF length_match # <<>>
                  THEN [length |-> length_match[1] \o <<" ">> \o length_match[2]]
                  ELSE <<>>
        audience_match == SearchClause(prompt, <<"f", "o", "r">>)
        audience == IF audience_match # <<>>
                    THEN [target_audience |-> Strip(audience_match[1])]
                    ELSE <<>>
    IN  [priority |-> "medium", language |-> "en"]
        @@ audience @@ length @@ tone @@ topic

extract_outcome_UnknownFormat(prompt) ==
    [ format |-> FirstMatch(output_formats, prompt, "text"),
      delivery |-> IF ContainsAny(prompt, { <<"s", "a", "v", "e">>,
                                         <<"e", "x", "p", "o", "r", "t">>,
                                         <<"d", "o", "w", "n", "l", "o", "a", "d">>,
                                         <<"f", "i", "l", "e">> })
                   THEN "save_to_file" ELSE "display" ]

\* _extract_outcome
extract_outcome(prompt) ==
    [ format |-> FirstMatch(output_formats, prompt, "plain_text"),
      delivery |-> IF ContainsAny(prompt, { <<"s", "a", "v", "e">>,
                                         <<"e", "x", "p", "o", "r", "t">>,
                                         <<"d", "o", "w", "n", "l", "o", "a", "d">>,
                                         <<"f", "i", "l", "e">> })
                   THEN "save_to_file" ELSE "display" ]

\* _extract_notification
extract_notification(prompt) ==
    [ method |-> IF Contains(prompt, <<"e", "m", "a", "i", "l">>) \/ Contains(prompt, <<"n", "o", "t", "i", "f", "y">>)
                 THEN "email"
                 ELSE IF Contains(prompt, <<"a", "l", "e", "r", "t">>) \/ Contains(prompt, <<"p", "i", "n", "g">>)
                 THEN "in_app" ELSE "none",
      trigger |-> "on_completion" ]

\* convert_to_istvon: the results a call can produce; an exception raised
\* by a step leaves the call without a record
convert_to_istvon(original_prompt) ==
    LET prompt_lower == Lower(original_prompt)
        instructions == extract_instructions(original_prompt)
    IN  IF instructions = IndexError
        THEN { [exception |-> "IndexError"] }
        ELSE { [ instructions |-> instructions,
                 source_data |-> extract_source_data(prompt_lower),
                 tools |-> tools,
                 variables |-> extract_variables(original_prompt),
                 outcome |-> extract_outcome(prompt_lower),
                 notification |-> extract_notification(prompt_lower) ]
               : tools \in extract_tools(prompt_lower) }

----------------------------------------------------------------------------
(* Prompts: the spec's examples, and every sequence of at most MaxWords    *)
(* words of the vocabulary joined by single spaces.                        *)

MaxWords == 3       \* words of the vocabulary in a generated prompt
Invocations == 2    \* calls of convert_to_istvon on one prompt

P_blog == <<"W", "r", "i", "t", "e", " ", "a", " ", "b", "l", "o", "g", " ", "p", "o", "s", "t", " ", "a", "b", "o", "u", "t", " ", "q", "u", "a", "n", "t", "u", "m", " ", "c", "o", "m", "p", "u", "t", "i", "n", "g", " ", "f", "o", "r", " ", "b", "e", "g", "i", "n", "n", "e", "r", "s">>
P_analyze == <<"A", "n", "a", "l", "y", "z", "e", " ", "a", "n", "d", " ", "s", "u", "m", "m", "a", "r", "i", "z", "e", " ", "t", "h", "i", "s", " ", "d", "a", "t", "a">>
P_report == <<"C", "r", "e", "a", "t", "e", " ", "a", " ", "r", "e", "p", "o", "r", "t", " ", "a", "n", "d", " ", "s", "a", "v", "e", " ", "i", "t", " ", "t", "o", " ", "a", " ", "f", "i", "l", "e">>
P_poem == <<"P", "l", "e", "a", "s", "e", " ", "w", "r", "i", "t", "e", " ", "a", " ", "s", "h", "o", "r", "t", " ", "p", "o", "e", "m">>
P_length == <<"C", "o", "u", "l", "d", " ", "y", "o", "u", " ", " ", "t", "r", "a", "n", "s", "l", "a", "t", "e", " ", "2", " ", "p", "a", "g", "e", "s", " ", "a", "b", "o", "u", "t", " ", " ", ",", " ", "o", "u", "r", " ", "c", "o", "m", "p", "a", "n", "y", " ", "c", "o", "d", "e", "?", " ", "N", "o", "t", "i", "f", "y", " ", "m", "e">>
P_code == <<"s", "e", "a", "r", "c", "h", " ", "f", "o", "r", " ", "a", " ", "c", "a", "s", "u", "a", "l", " ", "p", "r", "e", "s", "e", "n", "t", "a", "t", "i", "o", "n", ",", " ", "1", "0", " ", "W", "o", "r", "d", "s">>

ExamplePrompts == { P_blog, P_analyze, P_report, P_poem, P_length, P_code }

Vocabulary ==
    { <<"P", "l", "e", "a", "s", "e">>,
      <<"w", "r", "i", "t", "e">>,
      <<"c", "r", "e", "a", "t", "e">>,
      <<"A", "n", "a", "l", "y", "z", "e">>,
      <<"a", "b", "o", "u", "t">>,
      <<"c", "a", "t", "s", ",">>,
      <<"f", "o", "r">> }

Prompts ==
    ExamplePrompts
    \cup { Join(ws) : ws \in UNION { [1..n -> Vocabulary] : n \in 0..MaxWords } }

InitMapper ==
    /\ RegistryIdle
    /\ ThreadsIdle
    /\ BuilderIdle
    /\ ValidatorIdle
    /\ op = "init"
    /\ input \in Prompts
    /\ converted = <<>>

\* mapper.convert_to_istvon(prompt), by a fresh ISTVONMapper
Convert ==
    /\ Len(converted) < Invocations
    /\ \E r \in convert_to_istvon(input) : converted' = Append(converted, r)
    /\ op' = "convert_to_istvon"
    /\ UNCHANGED <<input, regVars, thrVars, bldVars, valVars>>

NextMapper == Convert

SpecMapper == InitMapper /\ [][NextMapper]_vars

----------------------------------------------------------------------------
(* ISTVONValidator on records a caller hands in: complete ones, ones with  *)
(* keys left out (a form being filled in) and ones with values the schema  *)
(* rejects.                                                                *)

A_detail == "Consider making instructions more detailed"
A_verb == "Start with a clear action verb (create, write, analyze, etc.)"
A_sources == "Consider specifying data sources for better context"
A_topic == "Adding a topic would improve clarity"
A_audience == "Specifying target audience helps tailor content"

\* ['create', 'write', 'analyze', 'generate']
ActionVerbs ==
    { <<"c", "r", "e", "a", "t", "e">>,
      <<"w", "r", "i", "t", "e">>,
      <<"a", "n", "a", "l", "y", "z", "e">>,
      <<"g", "e", "n", "e", "r", "a", "t", "e">> }

\* `if instructions:`
Truthy(instructions) == instructions # <<>> /\ instructions # NoneText

\* get_validation_suggestions(istvon_data): the dict of advisories
get_validation_suggestions(istvon_data) ==
    LET instructions == Get(istvon_data, "instructions", <<>>)
        inst_suggestions ==
            (IF Len(Split(instructions)) < 5 THEN <<A_detail>> ELSE <<>>)
            \o (IF ~ContainsAny(Lower(instructions), ActionVerbs)
                THEN <<A_verb>> ELSE <<>>)
        source_data == Get(istvon_data, "source_data", <<>>)
        variables == Get(istvon_data, "variables", <<>>)
        var_suggestions ==
            (IF "topic" \notin DOMAIN variables THEN <<A_topic>> ELSE <<>>)
            \o (IF "target_audience" \notin DOMAIN variables
                THEN <<A_audience>> ELSE <<>>)
        keys == (IF Truthy(instructions) /\ inst_suggestions # <<>>
                 THEN {"instructions"} ELSE {})
                \cup (IF source_data = <<>> THEN {"source_data"} ELSE {})
                \cup (IF var_suggestions # <<>> THEN {"variables"} ELSE {})
    IN  [k \in keys |->
            CASE k = "instructions" -> inst_suggestions
              [] k = "source_data" -> <<A_sources>>
              [] k = "variables" -> var_suggestions]

T_blank == <<" ", " ", " ">>
T_fix == <<"f", "i", "x", " ", "i", "t", " ", "n", "o", "w", " ", "o", "k">>
T_rewrite == <<"P", "l", "e", "a", "s", "e", " ", "r", "e", "w", "r", "i", "t", "e", " ", "t", "h", "e", " ", "o", "l", "d", " ", "e", "s", "s", "a", "y">>
T_story == <<"t", "e", "l", "l", " ", "m", "e", " ", "a", " ", "l", "o", "n", "g", " ", "s", "t", "o", "r", "y", " ", "n", "o", "w">>
T_generate == <<"G", "e", "n", "e", "r", "a", "t", "e", " ", "a", " ", "v", "e", "r", "y", " ", "l", "o", "n", "g", " ", "w", "e", "e", "k", "l", "y", " ", "r", "e", "p", "o", "r", "t">>

\* inputs: for each key, <<>> when the record lacks it, <<value>> otherwise
InstructionChoices ==
    { <<>>, <<NoneText>>, << <<>> >>, <<T_blank>>, <<T_write_it>>, <<T_fix>>,
      <<T_rewrite>>, <<T_story>>, <<T_generate>> }
SourceChoices ==
    { <<>>, << <<>> >>, << create_minimal_istvon(<<>>).source_data >>,
      << << [type |-> "bogus", source |-> "doc", required |-> FALSE] >> >> }
ToolChoices == { <<>>, << create_minimal_istvon(<<>>).tools >> }
VariableChoices ==
    { <<>>, << create_minimal_istvon(<<>>).variables >>,
      << [tone |-> "bogus", priority |-> "medium"] >>,
      << [topic |-> T_cats] >>,
      << [topic |-> T_cats, target_audience |-> T_cats, tone |-> "casual"] >> }
OutcomeChoices ==
    { << create_minimal_istvon(<<>>).outcome >>,
      << [format |-> "bogus", delivery |-> "bogus"] >> }
NotificationChoices == { <<>>, << create_minimal_istvon(<<>>).notification >> }

\* the dict with the chosen keys, in create_minimal_istvon's key order
MakeRecord(choice) ==
    [k \in { RequiredFields[i] : i \in { j \in 1..Len(RequiredFields) : choice[j] # <<>> } } |->
        choice[CHOOSE i \in 1..Len(RequiredFields) : RequiredFields[i] = k][1]]

PartialRecords ==
    { MakeRecord(<<i, s, t, v, o, n>>) :
        i \in InstructionChoices, s \in SourceChoices, t \in ToolChoices,
        v \in VariableChoices, o \in OutcomeChoices, n \in NotificationChoices }

InitValidator ==
    /\ RegistryIdle
    /\ ThreadsIdle
    /\ BuilderIdle
    /\ MapperIdle
    /\ op = "init"
    /\ record \in PartialRecords
    /\ checked = <<>>
    /\ advice = <<>>

\* validator.validate_partial(record, required_only)
ValidatePartial(required_only) ==
    /\ \E r \in validate_partial(record, required_only) : checked' = <<r>>
    /\ op' = "validate_partial"
    /\ UNCHANGED <<record, advice, regVars, thrVars, bldVars, mapVars>>

\* validator.get_validation_suggestions(record)
GetValidationSuggestions ==
    /\ advice' = << get_validation_suggestions(record) >>
    /\ op' = "get_validation_suggestions"
    /\ UNCHANGED <<record, checked, regVars, thrVars, bldVars, mapVars>>

NextValidator ==
    \/ \E required_only \in BOOLEAN : ValidatePartial(required_only)
    \/ GetValidationSuggestions

SpecValidator == InitValidator /\ [][NextValidator]_vars

----------------------------------------------------------------------------
\* C1: a record build() returned is a defensive copy: no later builder
\* operation changes any part of it, nested values included, and no
\* change the caller makes to it changes the builder's record.
C1_DefensiveCopy ==
    [][ /\ (op' \in BuilderOps /\ built # <<>> /\ built' # <<>>) =>
              DeepIn(heap', built'[1]) = DeepIn(heap, built[1])
        /\ (op' \in CallerOps) => DeepIn(heap', istvon') = DeepIn(heap, istvon) ]_vars

\* C2: build() on a record validate() rejects raises the invalid-structure
\* error carrying the validator's message and leaves the in-progress
\* record exactly as it was.
C2_FailedBuildKeepsRecord ==
    [][ (op' = "build" /\ Violations(Deep(istvon)) # {}) =>
            /\ raised' # <<>>
            /\ raised'[1].text = "Invalid ISTVON structure: "
            /\ \E v \in Violations(Deep(istvon)) :
                   raised'[1].error = ValidationErrorText(v)
            /\ istvon' = istvon
            /\ DeepIn(heap', istvon') = DeepIn(heap, istvon)
            /\ built' = built ]_vars

\* C2 witness: a build() has just raised, and one corrective
\* set_variables call makes the retained record one that build() returns.
C2_Witness ==
    /\ op = "build"
    /\ raised # <<>>
    /\ \E v \in VariableArgs :
          Violations(DeepIn([heap EXCEPT ![istvon.variables] = Update(@, v)], istvon)) = {}

\* C3: every record build() returns has the six top-level keys and holds
\* schema-declared values in its enumerated fields; validate() accepts it.
C3_BuiltRecordValid ==
    (op = "build" /\ raised = <<>>) =>
        LET R == Deep(built[1]) IN
        /\ DOMAIN R = { RequiredFields[i] : i \in DOMAIN RequiredFields }
        /\ \A i \in DOMAIN R.source_data : R.source_data[i].type \in SourceTypeEnum
        /\ Get(R.variables, "tone", "professional") \in ToneEnum
        /\ Get(R.variables, "priority", "medium") \in PriorityEnum
        /\ R.outcome.format \in FormatEnum
        /\ R.outcome.delivery \in DeliveryEnum
        /\ R.notification.method \in MethodEnum
        /\ R.notification.trigger \in TriggerEnum
        /\ Violations(R) = {}

\* C3 witness: build() returned a record that earlier operations changed
\* away from the minimal one.
C3_Witness ==
    /\ op = "build"
    /\ raised = <<>>
    /\ built # <<>>
    /\ Len(Deep(built[1]).source_data) = 2
    /\ "filename" \in DOMAIN Deep(built[1]).outcome
    /\ Deep(built[1]).variables.tone = "casual"

----------------------------------------------------------------------------
\* C4: the schema resource is read at most once over any sequence of
\* registry accesses, every later access being served from the cache.
C4_LoadedAtMostOnce == loads <= 1

\* C5: when threads call get_cached_schema() concurrently on an empty
\* cache, the schema is loaded exactly once and every caller receives
\* the same object.
C5_SingleInitialization ==
    /\ loads <= 1
    /\ (\E t \in Threads : pc[t] = "done") => loads = 1
    /\ \A t, u \in Threads :
          (pc[t] = "done" /\ pc[u] = "done") => result[t] = result[u]

\* C6: every record the Mapper produces passes full validation:
\* validate(R) == (true, None), every enumerated value being in its set.
C6_RoundTrip ==
    \A i \in DOMAIN converted :
        /\ \A r \in validate_istvon(converted[i]) : r[1]
        /\ converted[i].outcome.format \in FormatEnum
        /\ converted[i].outcome.delivery \in DeliveryEnum
        /\ converted[i].variables.tone \in ToneEnum
        /\ converted[i].variables.priority \in PriorityEnum
        /\ converted[i].notification.method \in MethodEnum
        /\ converted[i].notification.trigger \in TriggerEnum
        /\ \A k \in DOMAIN converted[i].source_data :
              converted[i].source_data[k].type \in SourceTypeEnum

\* C6 witness: a converted prompt whose format, tone and length were all
\* extracted rather than defaulted.
C6_Witness ==
    /\ converted # <<>>
    /\ converted[1].outcome.format = "html"
    /\ converted[1].variables.tone = "casual"
    /\ "length" \in DOMAIN converted[1].variables

\* C7: two invocations of the Mapper on the same prompt yield identical
\* structures, the order of the tools list included.
C7_Deterministic ==
    Len(converted) >= 2 => converted[1] = converted[2]

\* C8: "Write a blog post about quantum computing for beginners" yields
\* topic "quantum computing", target_audience "beginners" and format
\* markdown (topic T and audience A for a prompt with "about T for A").
C8_Extraction ==
    (input = P_blog /\ converted # <<>>) =>
        /\ converted[1].variables.topic = <<"q", "u", "a", "n", "t", "u", "m", " ", "c", "o", "m", "p", "u", "t", "i", "n", "g">>
        /\ converted[1].variables.target_audience = <<"b", "e", "g", "i", "n", "n", "e", "r", "s">>
        /\ converted[1].outcome.format = "markdown"

\* C9: the tools list holds each matched category exactly once and no
\* other, is the single entry text_generation when no keyword matches,
\* and is never empty; "Analyze and summarize this data" gives exactly
\* data_analysis and summarization.
C9_ToolDedup ==
    \A i \in DOMAIN converted :
        LET tools == converted[i].tools
            names == { tools[k].name : k \in DOMAIN tools }
            matched == { action_keywords[j][2] :
                           j \in { n \in 1..Len(action_keywords) :
                                     Contains(Lower(input), action_keywords[n][1]) } }
        IN  /\ Len(tools) >= 1
            /\ Cardinality(names) = Len(tools)
            /\ matched # {} => names = matched
            /\ matched = {} => tools = << [name |-> "text_generation"] >>
            /\ input = P_analyze => names = {"data_analysis", "summarization"}

\* C9 witness: a converted prompt in which two keywords of one category
\* and a keyword of another occur.
C9_Witness ==
    /\ converted # <<>>
    /\ Contains(Lower(input), <<"w", "r", "i", "t", "e">>)
    /\ Contains(Lower(input), <<"c", "r", "e", "a", "t", "e">>)
    /\ Contains(Lower(input), <<"a", "n", "a", "l", "y", "z", "e">>)
    /\ Len(converted[1].tools) = 2

\* C10: for every prompt, the empty one included, the Mapper returns a
\* record with exactly the six top-level keys, a one-element source_data
\* and trigger on_completion, and does not fail.
C10_Total ==
    \A i \in DOMAIN converted :
        /\ "exception" \notin DOMAIN converted[i]
        /\ DOMAIN converted[i] = { RequiredFields[k] : k \in DOMAIN RequiredFields }
        /\ Len(converted[i].source_data) = 1
        /\ converted[i].notification.trigger = "on_completion"

\* C10 witness: a prompt that is only a politeness phrase, converted.
C10_Witness ==
    /\ input = <<"P", "l", "e", "a", "s", "e">>
    /\ converted # <<>>
    /\ converted[1].instructions = <<"P", "l", "e", "a", "s", "e">>

----------------------------------------------------------------------------
\* the entry create_minimal_istvon puts in source_data
Placeholder == create_minimal_istvon(<<>>).source_data[1]

\* the descriptors a caller can add
CallerItems == { SourceItem(s[1], s[2], s[3], s[4]) : s \in SourceArgs }

\* C11: add_source_data on a source_data list that is exactly the single
\* default placeholder (a fresh Builder) leaves a list of length 1 whose
\* only entry is the new descriptor, and the placeholder leaves the list
\* only when the list was exactly that single placeholder.
C11_PlaceholderReplaced ==
    [][ op' = "add_source_data" =>
          LET cur == heap[istvon.source_data]
              new == heap'[istvon'.source_data]
          IN  /\ cur = <<Placeholder>> =>
                    /\ Len(new) = 1
                    /\ new[1] \in CallerItems
                    /\ new[1] # Placeholder
              /\ ( /\ \E i \in DOMAIN cur : cur[i] = Placeholder
                   /\ \A i \in DOMAIN new : new[i] # Placeholder )
                 => cur = <<Placeholder>> ]_vars

\* C11 witness: the first add_source_data on a Builder has acted, and the
\* list holds the added descriptor alone.
C11_Witness ==
    /\ op = "add_source_data"
    /\ Len(heap[istvon.source_data]) = 1
    /\ heap[istvon.source_data][1].type = "knowledge_base"
    /\ "description" \in DOMAIN heap[istvon.source_data][1]

\* C16: add_source_data removes nothing but the default placeholder:
\* every descriptor a caller added stays, in call order, and the new
\* descriptor follows them, whatever their type.
C16_OnlyPlaceholderRemoved ==
    [][ op' = "add_source_data" =>
          LET cur == heap[istvon.source_data]
              new == heap'[istvon'.source_data]
              kept == SelectSeq(cur, LAMBDA d : d # Placeholder)
          IN  /\ Len(new) = Len(kept) + 1
              /\ SubSeq(new, 1, Len(kept)) = kept
              /\ new[Len(new)] \in CallerItems ]_vars

\* C13: set_variables merges: every given key maps to its given value,
\* every other key of the previous variables mapping keeps its value, and
\* no other field of the in-progress record changes.
C13_VariablesMerged ==
    [][ op' = "set_variables" =>
          LET old == heap[istvon.variables]
              new == heap'[istvon'.variables]
          IN  /\ \E kv \in VariableArgs :
                    /\ DOMAIN new = DOMAIN old \cup DOMAIN kv
                    /\ \A k \in DOMAIN kv : new[k] = kv[k]
                    /\ \A k \in DOMAIN old \ DOMAIN kv : new[k] = old[k]
              /\ istvon' = istvon
              /\ \A k \in DOMAIN istvon \ {"variables"} :
                    DeepIn(heap', istvon')[k] = DeepIn(heap, istvon)[k] ]_vars

\* C13 witness: set_variables(topic=...) has acted and the initial tone
\* and priority are still there.
C13_Witness ==
    /\ op = "set_variables"
    /\ heap[istvon.variables] =
          [tone |-> "professional", priority |-> "medium", topic |-> T_cats]

\* the keys set_outcome and set_notification write for given arguments
OutcomeKeys(o) ==
    {"format", "delivery"}
    \cup (IF o[3] # None THEN {"filename"} ELSE {})
    \cup (IF o[4] # None THEN {"destination"} ELSE {})
    \cup DOMAIN o[5]

NotificationKeys(n) ==
    {"method", "trigger"}
    \cup (IF n[2] # None THEN {"recipient"} ELSE {})
    \cup (IF n[4] # None THEN {"message_template"} ELSE {})

\* C14: set_outcome and set_notification replace their field wholesale:
\* the field holds the given required values and exactly the optional
\* keys supplied in this call, nothing of its previous value.
C14_ReplacedWholesale ==
    [][ /\ op' = "set_outcome" =>
              LET new == heap'[istvon'.outcome] IN
              \E o \in OutcomeArgs :
                  /\ DOMAIN new = OutcomeKeys(o)
                  /\ new.format = o[1]
                  /\ new.delivery = o[2]
                  /\ "filename" \in DOMAIN new => new.filename = o[3]
                  /\ "destination" \in DOMAIN new => new.destination = o[4]
                  /\ \A k \in DOMAIN o[5] : new[k] = o[5][k]
        /\ op' = "set_notification" =>
              LET new == heap'[istvon'.notification] IN
              \E n \in NotificationArgs :
                  /\ DOMAIN new = NotificationKeys(n)
                  /\ new.method = n[1]
                  /\ new.trigger = n[3]
                  /\ "recipient" \in DOMAIN new => new.recipient = n[2]
                  /\ "message_template" \in DOMAIN new => new.message_template = n[4]
      ]_vars

\* C14 witness: a record built with an outcome that named a file is held
\* by the caller, and a later set_outcome without a filename has acted:
\* the in-progress outcome has no filename.
C14_Witness ==
    /\ op = "set_outcome"
    /\ built # <<>>
    /\ "filename" \in DOMAIN heap[built[1].outcome]
    /\ DOMAIN heap[istvon.outcome] = {"format", "delivery", "destination", "quality"}

\* C12: validate_partial reports, when required_only is true, one
\* missing-field error for every required key the record lacks (none
\* otherwise), and in either case one error for every key present whose
\* value fails its schema fragment, going on after the first; ok is true
\* exactly when the list is empty.  A minimal record without its tools key
\* gives exactly the missing-field error naming tools, the Builder's
\* initial record gives none.
C12_PartialValidation ==
    checked # <<>> =>
        LET r == checked[1]
            d == IF istvon # <<>> THEN Deep(istvon) ELSE record
            required == { RequiredFields[i] : i \in DOMAIN RequiredFields }
            absent == required \ DOMAIN d
            failing == { k \in required \cap DOMAIN d : FieldViolations(k, d[k]) # {} }
            missing == { i \in DOMAIN r.errors :
                           r.errors[i].text = "Missing required field: " }
            fieldwise == DOMAIN r.errors \ missing
        IN  /\ r.required_only =>
                  /\ Cardinality(missing) = Cardinality(absent)
                  /\ \A f \in absent : \E i \in missing : r.errors[i].field = f
            /\ ~r.required_only => missing = {}
            /\ Cardinality(fieldwise) = Cardinality(failing)
            /\ \A k \in failing :
                  \E i \in fieldwise :
                      /\ r.errors[i].field = k
                      /\ \E v \in FieldViolations(k, d[k]) : r.errors[i].message = v.message
            /\ r.ok <=> r.errors = <<>>
            /\ (r.required_only
                /\ d = [k \in required \ {"tools"} |-> create_minimal_istvon(<<>>)[k]])
               => /\ Len(r.errors) = 1
                  /\ r.errors[1].text = "Missing required field: "
                  /\ r.errors[1].field = "tools"
            /\ d = create_minimal_istvon(<<>>) => r.errors = <<>>

\* C12 witness: validate_partial with required_only was given a record
\* that lacks only tools and has two failing fields, and reported three
\* errors.
C12_Witness ==
    /\ op = "validate_partial"
    /\ checked # <<>>
    /\ checked[1].required_only
    /\ { RequiredFields[i] : i \in DOMAIN RequiredFields } \ DOMAIN record = {"tools"}
    /\ Len(checked[1].errors) = 3
    /\ ~checked[1].ok

\* C15: the instructions advisories contain "add detail" whenever
\* instructions has fewer than 5 words (0 to 4) and "start with an action
\* verb" whenever it contains none of create, write, analyze, generate;
\* an empty source_data gets an advisory; a missing topic and a missing
\* target_audience get one each; the call changes neither the record nor
\* validate()'s verdict on it.
C15_Suggestions ==
    [][ op' = "get_validation_suggestions" =>
          LET a == advice'[1]
              Has(k, x) == k \in DOMAIN a /\ \E i \in DOMAIN a[k] : a[k][i] = x
              variables == Get(record, "variables", <<>>)
          IN  /\ ("instructions" \in DOMAIN record /\ IsText(record.instructions)) =>
                    /\ Len(Split(record.instructions)) < 5 => Has("instructions", A_detail)
                    /\ ~ContainsAny(Lower(record.instructions), ActionVerbs)
                          => Has("instructions", A_verb)
              /\ Get(record, "source_data", <<>>) = <<>> => Has("source_data", A_sources)
              /\ "topic" \notin DOMAIN variables => Has("variables", A_topic)
              /\ "target_audience" \notin DOMAIN variables => Has("variables", A_audience)
              /\ record' = record
              /\ validate_istvon(record') = validate_istvon(record) ]_vars

====
